---- MODULE Spec2Model ----
(***************************************************************************)
(* Model of the KVO mixin of src/kvo.js: bindTo, get, set and the index    *)
(* maintenance helper _updateObserverIndexes, over a small heap of objects *)
(* whose attributes are either absent, plain values or binding descriptors *)
(* that reference a shared object (value + observers table).               *)
(***************************************************************************)
EXTENDS Integers, Sequences, FiniteSets, TLC

\* ---------------------------------------------------------------- bounds
\* at most MaxCalls calls of bindTo/set are made in one run
MaxCalls == 4

\* the objects that can be constructed, their one bindable key, the values
Objs == {"o1", "o2", "o3", "o4"}
Keys == {"name"}
Vals == {"Bob", "Bill"}

Attr == Objs \X Keys

\* JavaScript's undefined, and the null stored in __sharedObject at line 141
Undef == "undefined"
Null == <<"null">>

\* ---------------------------------------------------------------- state
VARIABLES
  slot,        \* slot[a]: what this[key] holds for attribute a = <<obj, key>>
  cells,       \* cells[c]: the shared object created when attribute c was promoted
  hasChanged,  \* hasChanged[a]: the object defines <key>Changed
  calls,       \* the <key>Changed invocations made by the last call, in order
  last,        \* the last call: its arguments, locals and outcome
  views,       \* for each entry of calls: what get returns on every attribute
               \* at that moment, and the nesting depth of the set that calls
  reenters,    \* the attributes whose <key>Changed callback calls set
  objs,        \* the objects that were constructed
  links,       \* history: <<source, target>> of every bindTo that returned
  ncalls       \* number of calls made so far

vars == <<slot, cells, hasChanged, calls, views, reenters, last, objs, links, ncalls>>

Absent == [kind |-> "Absent", value |-> Undef, myIndex |-> 0,
           observerIndexes |-> <<>>, sharedObject |-> Null]
Plain(v) == [kind |-> "Plain", value |-> v, myIndex |-> 0,
             observerIndexes |-> <<>>, sharedObject |-> Null]
Bound(idx, obsIdx, so) == [kind |-> "Bound", value |-> Undef, myIndex |-> idx,
                           observerIndexes |-> obsIdx, sharedObject |-> so]

NoCell == [value |-> Undef, observers |-> <<>>]
SharedObject(v, obs) == [value |-> v, observers |-> obs]

\* `key in this`
InAnyObject(sl, a) == sl[a].kind \in {"Absent", "Plain", "Bound"}

In(sl, a) == sl[a].kind # "Absent"

\* this[key] read as a value (undefined when the property is absent)
Raw(sl, a) == IF sl[a].kind = "Plain" THEN sl[a].value ELSE Undef

IsPropertyBound(sl, a) == sl[a].kind = "Bound"

\* for ( var i in array ): the enumerated keys are strings "0", "1", ...
ForInKey(k) == <<"string", k>>
\* ... visited in ascending order
ForInKeysDescending(array) == [j \in 1..Len(array) |-> ForInKey(Len(array) - j)]

ForInKeys(array) == [j \in 1..Len(array) |-> ForInKey(j - 1)]
Number(k) == <<"number", k>>
\* i < n : relational comparison converts the string key to a number
LessThanOrEqual(i, n) == i[2] <= n[2]

LessThan(i, n) == i[2] < n[2]
\* i === n : strict equality compares the type as well as the value
StrictEquals(i, n) == i = n

\* targetKey || key
OrDefault(targetKey, key) == IF targetKey = Undef THEN key ELSE targetKey

\* ------------------------------------------------- _updateObserverIndexes
\* st = [slot, ok]; ok = FALSE once a TypeError has been thrown (reading
\* .obj of the undefined entry beyond the end of the observers table).
RECURSIVE UpdateObserverIndexes(_, _, _, _)
RECURSIVE UpdateLoop(_, _, _, _, _)
UpdateLoop(st, cs, a, offsetIncrease, i) ==
  IF ~st.ok \/ i > Len(st.slot[a].observerIndexes) THEN st
  ELSE LET idx == st.slot[a].observerIndexes[i]
           so  == st.slot[a].sharedObject
           obs == IF so = Null THEN <<>> ELSE cs[so].observers
       IN IF idx >= Len(obs)
          THEN [st EXCEPT !.ok = FALSE]
          ELSE LET s2 == UpdateObserverIndexes(st, cs, obs[idx + 1], offsetIncrease)
               IN IF ~s2.ok THEN s2
                  ELSE UpdateLoop(
                         [s2 EXCEPT !.slot[a].observerIndexes[i] = @ + offsetIncrease],
                         cs, a, offsetIncrease, i + 1)

UpdateObserverIndexesKeepsSelf(st, cs, a, offsetIncrease) ==
  UpdateLoop(st, cs, a, offsetIncrease, 1)

UpdateObserverIndexes(st, cs, a, offsetIncrease) ==
  UpdateLoop([st EXCEPT !.slot[a].myIndex = @ + offsetIncrease],
             cs, a, offsetIncrease, 1)

\* ----------------------------------------------------------------- get
\* reading __value of the null __sharedObject throws
Get(sl, cs, a) ==
  IF IsPropertyBound(sl, a)
  THEN IF sl[a].sharedObject = Null THEN "TypeError" ELSE cs[sl[a].sharedObject].value
  ELSE Raw(sl, a)

\* what a callback sees when it calls get on each attribute
View(sl, cs, depth) == [get |-> [b \in Attr |-> Get(sl, cs, b)], depth |-> depth]

\* --------------------------------------------------------------- bindTo
\* lines 99-110: make the target's property complex
PromoteLosesValue(sl, cs, t) ==
  IF ~IsPropertyBound(sl, t)
  THEN [slot  |-> [sl EXCEPT ![t] = Bound(0, <<>>, t)],
        cells |-> [cs EXCEPT ![t] = SharedObject(Undef, <<t>>)]]
  ELSE [slot |-> sl, cells |-> cs]

Promote(sl, cs, t) ==
  IF ~IsPropertyBound(sl, t)
  THEN [slot  |-> [sl EXCEPT ![t] = Bound(0, <<>>, t)],
        cells |-> [cs EXCEPT ![t] = SharedObject(Raw(sl, t), <<t>>)]]
  ELSE [slot |-> sl, cells |-> cs]

\* line 122: the key is already bound
AlreadyBoundNever(sl, s) == FALSE

AlreadyBound(sl, s) == sl[s].myIndex # 0

\* line 130: merge the observers, the target's first
ConcatSourceFirst(targetObservers, sourceObservers) ==
  sourceObservers \o targetObservers

Concat(targetObservers, sourceObservers) ==
  targetObservers \o sourceObservers

\* line 160: point the observer to the common shared object
RewireIfUnset(sl, e, tc) ==
  IF sl[e].sharedObject = Null THEN [sl EXCEPT ![e].sharedObject = tc] ELSE sl

Rewire(sl, e, tc) == [sl EXCEPT ![e].sharedObject = tc]

\* lines 152-172: the rewiring and notification loop; st = [slot, calls, views]
NotifySkippedInverted(cellValue, observersValue, i, n, noNotify) ==
  cellValue # observersValue \/ (StrictEquals(i, n) /\ noNotify)

NotifySkipped(cellValue, observersValue, i, n, noNotify) ==
  cellValue = observersValue \/ (StrictEquals(i, n) /\ noNotify)

RECURSIVE BindLoop(_, _, _, _, _, _, _)
BindLoop(st, cs, t, n, observersValue, noNotify, j) ==
  LET tc   == st.slot[t].sharedObject
      obs  == cs[tc].observers
      keys == ForInKeys(obs)
  IN IF j > Len(keys) THEN st
     ELSE LET i == keys[j]
          IN IF LessThan(i, Number(n))
             THEN BindLoop(st, cs, t, n, observersValue, noNotify, j + 1)
             ELSE LET e  == obs[i[2] + 1]
                      s1 == [st EXCEPT !.slot = Rewire(@, e, tc)]
                      s2 == IF NotifySkipped(cs[tc].value, observersValue, i, Number(n), noNotify)
                               \/ ~hasChanged[e]
                            THEN s1
                            ELSE [s1 EXCEPT !.calls = Append(@, [attr |-> e, args |-> <<>>]),
                                            !.views = Append(@, View(s1.slot, cs, 0))]
                  IN BindLoop(s2, cs, t, n, observersValue, noNotify, j + 1)

NoCall == [op |-> "none", this |-> Undef, key |-> Undef, target |-> Undef,
           targetKey |-> Undef, flag |-> FALSE, value |-> Undef,
           outcome |-> "none", n |-> 0, observersValue |-> Undef]

BindCall(this, key, target, targetKey, noNotify, outcome, n, observersValue) ==
  [op |-> "bindTo", this |-> this, key |-> key, target |-> target,
   targetKey |-> targetKey, flag |-> noNotify, value |-> Undef,
   outcome |-> outcome, n |-> n, observersValue |-> observersValue]

BindTo(this, key, target, targetKeyArg, noNotify) ==
  LET targetKey == OrDefault(targetKeyArg, key)
      s  == <<this, key>>
      t  == <<target, targetKey>>
      p  == Promote(slot, cells, t)
      tc == p.slot[t].sharedObject
      n  == Len(p.cells[tc].observers)
      sl2 == [p.slot EXCEPT ![t].observerIndexes = Append(@, n)]
      u  == UpdateObserverIndexes([slot |-> sl2, ok |-> TRUE], p.cells, s, n)
      sc == u.slot[s].sharedObject
      cellsMerged == [p.cells EXCEPT ![tc].observers = Concat(@, p.cells[sc].observers)]
      slPlain == [sl2 EXCEPT ![s] = Bound(n, <<>>, Null)]
      cellsPlain == [p.cells EXCEPT ![tc].observers = Append(@, s)]
  IN
  /\ ncalls < MaxCalls
  /\ ncalls' = ncalls + 1
  /\ IF ~In(slot, t)
     THEN /\ UNCHANGED <<slot, cells>>
          /\ calls' = <<>> /\ views' = <<>>
          /\ last' = BindCall(this, key, target, targetKey, noNotify, "Undefined", 0, Undef)
     ELSE IF IsPropertyBound(sl2, s)
     THEN IF AlreadyBound(sl2, s)
          THEN /\ slot' = sl2
               /\ cells' = p.cells
               /\ calls' = <<>> /\ views' = <<>>
               /\ last' = BindCall(this, key, target, targetKey, noNotify, "AlreadyBound", n, Undef)
          ELSE IF ~u.ok
          THEN /\ slot' = u.slot
               /\ cells' = p.cells
               /\ calls' = <<>> /\ views' = <<>>
               /\ last' = BindCall(this, key, target, targetKey, noNotify, "TypeError", n, Undef)
          ELSE LET ov == p.cells[sc].value
                   r  == BindLoop([slot |-> u.slot, calls |-> <<>>, views |-> <<>>],
                                  cellsMerged, t, n, ov, noNotify, 1)
               IN /\ slot' = r.slot
                  /\ cells' = cellsMerged
                  /\ calls' = r.calls /\ views' = r.views
                  /\ last' = BindCall(this, key, target, targetKey, noNotify, "returned", n, ov)
     ELSE LET ov == Raw(sl2, s)
              r  == BindLoop([slot |-> slPlain, calls |-> <<>>, views |-> <<>>],
                             cellsPlain, t, n, ov, noNotify, 1)
          IN /\ slot' = r.slot
             /\ cells' = cellsPlain
             /\ calls' = r.calls /\ views' = r.views
             /\ last' = BindCall(this, key, target, targetKey, noNotify, "returned", n, ov)
  /\ links' = IF last'.outcome = "returned" THEN links \cup {<<s, t>>} ELSE links
  /\ UNCHANGED <<hasChanged, reenters, objs>>

\* ------------------------------------------------------------------ set
SetCall(this, key, value, forceCallback, outcome) ==
  [op |-> "set", this |-> this, key |-> key, target |-> Undef,
   targetKey |-> Undef, flag |-> forceCallback, value |-> value,
   outcome |-> outcome, n |-> 0, observersValue |-> Undef]

\* line 214: the observer at position k has no callback defined
SetSkipsFirst(obs, k) == k = 0 \/ ~hasChanged[obs[k + 1]]

SetSkips(obs, k) == ~hasChanged[obs[k + 1]]

\* line 208: set the new value
WriteSharedReplaces(cs, so, value) == [cs EXCEPT ![so] = SharedObject(value, <<>>)]

WriteShared(cs, so, value) == [cs EXCEPT ![so].value = value]

SetUnchangedInverted(current, value, forceCallback) == current # value /\ ~forceCallback

SetUnchanged(current, value, forceCallback) == current = value /\ ~forceCallback
PlainUnchanged(current, value) == current = value

\* line 218: the argument passed to <key>Changed
ArgumentCurrent(cs, so, value) == cs[so].value

Argument(cs, so, value) == value

\* A <key>Changed callback that calls set: it rejects one value and writes
\* another in its place, function ( v ) { if ( v === Rejected ) this.set( key, Replacement ) }
Rejected == "Bill"
Replacement == "Bob"
Reenters(e, args) == e \in reenters /\ args = <<Rejected>>

\* lines 201-223, the bound branch of set, and its loop (lines 211-220);
\* st = [cells, calls, views]; a callback that calls set runs that whole
\* set before the loop goes on
RECURSIVE SetBound(_, _, _, _, _, _)
RECURSIVE SetLoop(_, _, _, _, _, _)
SetLoop(st, sl, so, value, j, depth) ==
  LET obs  == st.cells[so].observers
      keys == ForInKeys(obs)
  IN IF j > Len(keys) THEN st
     ELSE LET i == keys[j]
              e == obs[i[2] + 1]
          IN IF SetSkips(obs, i[2])
             THEN SetLoop(st, sl, so, value, j + 1, depth)
             ELSE LET args == <<Argument(st.cells, so, value)>>
                      s1 == [st EXCEPT !.calls = Append(@, [attr |-> e, args |-> args]),
                                       !.views = Append(@, View(sl, st.cells, depth))]
                      s2 == IF Reenters(e, args)
                            THEN SetBound(s1, sl, e, Replacement, FALSE, depth + 1)
                            ELSE s1
                  IN SetLoop(s2, sl, so, value, j + 1, depth)

SetBound(st, sl, a, value, forceCallback, depth) ==
  LET so == sl[a].sharedObject
  IN IF SetUnchanged(st.cells[so].value, value, forceCallback)
     THEN st
     ELSE SetLoop([st EXCEPT !.cells = WriteShared(@, so, value)],
                  sl, so, value, 1, depth)

Set(this, key, value, forceCallback) ==
  LET a == <<this, key>>
      r == SetBound([cells |-> cells, calls |-> <<>>, views |-> <<>>],
                    slot, a, value, forceCallback, 0)
      plainSlot == [slot EXCEPT ![a] = Plain(value)]
  IN
  /\ ncalls < MaxCalls
  /\ ncalls' = ncalls + 1
  /\ IF ~In(slot, a)
     THEN /\ UNCHANGED <<slot, cells>>
          /\ calls' = <<>> /\ views' = <<>>
          /\ last' = SetCall(this, key, value, forceCallback, "CannotSet")
     ELSE IF IsPropertyBound(slot, a)
     THEN /\ cells' = r.cells
          /\ UNCHANGED slot
          /\ calls' = r.calls /\ views' = r.views
          /\ last' = SetCall(this, key, value, forceCallback, "returned")
     ELSE IF PlainUnchanged(slot[a].value, value)
          THEN /\ UNCHANGED <<slot, cells>>
               /\ calls' = <<>> /\ views' = <<>>
               /\ last' = SetCall(this, key, value, forceCallback, "returned")
          ELSE /\ slot' = plainSlot
               /\ UNCHANGED cells
               /\ calls' = IF hasChanged[a] THEN <<[attr |-> a, args |-> <<>>]>> ELSE <<>>
               /\ views' = IF hasChanged[a] THEN <<View(plainSlot, cells, 0)>> ELSE <<>>
               /\ last' = SetCall(this, key, value, forceCallback, "returned")
  /\ UNCHANGED <<hasChanged, reenters, objs, links>>

\* ------------------------------------------------------- specification
\* Three objects, each with or without the attribute; o3 has no callback
\* (as the model object of src/app.js), the others define <key>Changed.
Callbacks == [a \in Attr |-> a[1] \in {"o1", "o2", "o4"}]

Init ==
  /\ objs = {"o1", "o2", "o3"}
  /\ slot \in [Attr -> {Absent} \cup {Plain(v) : v \in Vals}]
  /\ \A a \in Attr : a[1] \notin objs => slot[a] = Absent
  /\ cells = [a \in Attr |-> NoCell]
  /\ hasChanged = Callbacks
  /\ calls = <<>>
  /\ views = <<>>
  /\ reenters = {}
  /\ last = NoCall
  /\ links = {}
  /\ ncalls = 0

\* Four objects that all have the attribute, two holding each value.
Init4 ==
  /\ objs = Objs
  /\ slot = [a \in Attr |-> Plain(IF a[1] \in {"o1", "o2"} THEN "Bob" ELSE "Bill")]
  /\ cells = [a \in Attr |-> NoCell]
  /\ hasChanged = Callbacks
  /\ calls = <<>>
  /\ views = <<>>
  /\ reenters = {}
  /\ last = NoCall
  /\ links = {}
  /\ ncalls = 0

DoBindTo ==
  \E this \in objs, key \in Keys, target \in objs,
     targetKey \in Keys \cup {Undef}, noNotify \in BOOLEAN :
       BindTo(this, key, target, targetKey, noNotify)

DoSet ==
  \E this \in objs, key \in Keys, value \in Vals, forceCallback \in BOOLEAN :
       Set(this, key, value, forceCallback)

Next == DoBindTo \/ DoSet

Spec == Init /\ [][Next]_vars

\* The calls as src/app.js makes them: bindTo(key, target) and set(key, value)
DoBindTo2 ==
  \E this \in objs, key \in Keys, target \in objs :
       BindTo(this, key, target, Undef, FALSE)

DoSet2 ==
  \E this \in objs, key \in Keys, value \in Vals :
       Set(this, key, value, FALSE)

Next4 == DoBindTo2 \/ DoSet2

Spec4 == Init4 /\ [][Next4]_vars

\* Three objects that all have the attribute; the <key>Changed callback of
\* o1, or of o1 and o2, calls set.
InitR ==
  /\ objs = {"o1", "o2", "o3"}
  /\ slot \in [Attr -> {Absent} \cup {Plain(v) : v \in Vals}]
  /\ \A a \in Attr : slot[a] = Absent <=> a[1] \notin objs
  /\ cells = [a \in Attr |-> NoCell]
  /\ hasChanged = Callbacks
  /\ calls = <<>>
  /\ views = <<>>
  /\ reenters \in {{<<"o1", "name">>}, {<<"o1", "name">>, <<"o2", "name">>}}
  /\ last = NoCall
  /\ links = {}
  /\ ncalls = 0

SpecR == InitR /\ [][Next4]_vars

\* ------------------------------------------------------------ groups
Src(c) == <<c.this, c.key>>
Tgt(c) == <<c.target, c.targetKey>>

\* the attributes linked to a, directly or through chains, by the binds lk
RECURSIVE GroupOf(_, _)
Closure(lk, S) ==
  S \cup {b \in Attr : \E a \in S : <<a, b>> \in lk \/ <<b, a>> \in lk}
GroupOf(lk, S) == IF Closure(lk, S) = S THEN S ELSE GroupOf(lk, Closure(lk, S))
Group(a) == GroupOf(links, {a})

\* number of invocations of a's callback with arguments args in a call log
RECURSIVE Count(_, _, _)
Count(log, a, args) ==
  IF log = <<>> THEN 0
  ELSE (IF Head(log) = [attr |-> a, args |-> args] THEN 1 ELSE 0)
       + Count(Tail(log), a, args)
Invoked(log, a) == {i \in 1..Len(log) : log[i].attr = a}

Returned(c, op) == c.op = op /\ c.outcome = "returned"

\* ------------------------------------------------------------ claims
\* C1: between calls, all attributes linked by successful binds (directly or
\* through chains) return the same value from get, and after a set that
\* returned every member of the written attribute's group returns that value.
C1_ValueAgreement ==
  /\ \A a \in Attr : \A b \in Group(a) : Get(slot, cells, a) = Get(slot, cells, b)
  /\ Returned(last, "set") =>
       \A b \in Group(Src(last)) : Get(slot, cells, b) = last.value

C1_Witness ==
  /\ Returned(last, "set")
  /\ Cardinality(Group(Src(last))) = 3
  /\ Len(calls) = 2
  /\ last.flag = FALSE

\* C2: one set with a value different from the current one, on a member of
\* a group built by successful binds, invokes <key>Changed(value) exactly
\* once on every member of the group that defines the callback.
C2_ExactlyOnceFanOut ==
  [][ (Returned(last', "set") /\ IsPropertyBound(slot, Src(last'))
        /\ Get(slot, cells, Src(last')) # last'.value)
      => \A b \in Group(Src(last')) :
            hasChanged[b] => /\ Count(calls', b, <<last'.value>>) = 1
                             /\ Cardinality(Invoked(calls', b)) = 1 ]_vars

C2_Witness ==
  /\ Returned(last, "set")
  /\ Cardinality(Group(Src(last))) = 3
  /\ Len(calls) = 2
  /\ <<<<"o1", "name">>, <<"o2", "name">>>> \in links
  /\ <<<<"o2", "name">>, <<"o3", "name">>>> \in links

\* C3: after a bindTo that returned, get on the source and on every member of
\* the source's former group equals what get returned on the target before
\* the call, and get on every member of the target's group is unchanged.
C3_BindAdoptsTargetValue ==
  [][ Returned(last', "bindTo")
      => /\ \A b \in Group(Src(last')) :
               Get(slot', cells', b) = Get(slot, cells, Tgt(last'))
         /\ \A b \in Group(Tgt(last')) :
               Get(slot', cells', b) = Get(slot, cells, b) ]_vars

C3_Witness ==
  /\ Returned(last, "bindTo")
  /\ last.observersValue = Undef
  /\ Get(slot, cells, Src(last)) \in Vals
  /\ Cardinality(Group(Src(last))) = 3

\* C4: a bindTo that fails with the 'already bound' error leaves every slot,
\* descriptor, table and cell value as it was before the call.
C4_AlreadySourcedNoTrace ==
  [][ (last'.op = "bindTo" /\ last'.outcome = "AlreadyBound")
      => slot' = slot /\ cells' = cells ]_vars

\* C5: a bindTo of a Plain source with noNotify = true invokes no
\* <key>Changed callback on the new source.
C5_NoNotifySuppresses ==
  [][ (Returned(last', "bindTo") /\ last'.flag /\ ~IsPropertyBound(slot, Src(last')))
      => Invoked(calls', Src(last')) = {} ]_vars

\* C6: during a bindTo without noNotify that returned, every newly joined
\* member (the source and its former group) that defines <key>Changed has it
\* invoked exactly once, with no argument, iff the target's value differs from
\* the value the source held before; no member at a table position below the
\* pre-bind length, and no member of the target's former group, is notified.
C6_BindTimeNotification ==
  [][ (Returned(last', "bindTo") /\ ~last'.flag)
      => LET s == Src(last')
             t == Tgt(last')
             differs == Get(slot, cells, t) # Get(slot, cells, s)
             expected == IF differs THEN 1 ELSE 0
             obs == cells'[slot'[t].sharedObject].observers
         IN /\ \A b \in Group(s) :
                 hasChanged[b] => /\ Count(calls', b, <<>>) = expected
                                  /\ Cardinality(Invoked(calls', b)) = expected
            /\ \A b \in Group(t) : Invoked(calls', b) = {}
            /\ \A k \in 1..last'.n : Invoked(calls', obs[k]) = {} ]_vars

C6_Witness ==
  /\ Returned(last, "bindTo")
  /\ ~last.flag
  /\ last.n = 1
  /\ Len(cells[slot[Tgt(last)].sharedObject].observers) = 3
  /\ Len(calls) = 2

\* C7: set(key, v, true) with v equal to the current value still invokes the
\* callbacks a changing write would invoke: for a Bound attribute the callback
\* of every member of its table, for a Plain attribute the object's own.
C7_ForceCallback ==
  [][ (Returned(last', "set") /\ last'.flag
        /\ Get(slot, cells, Src(last')) = last'.value)
      => LET a == Src(last')
         IN IF IsPropertyBound(slot, a)
            THEN \A k \in 1..Len(cells[slot[a].sharedObject].observers) :
                   LET e == cells[slot[a].sharedObject].observers[k]
                   IN hasChanged[e] => Count(calls', e, <<last'.value>>) = 1
            ELSE hasChanged[a] => Count(calls', a, <<>>) = 1 ]_vars

\* C8: set(key, v) without forceCallback, when get(key) already returns v,
\* invokes no callback and leaves slots, cells, tables and descriptors as
\* they were, for Bound and Plain attributes alike.
C8_NoOpOnUnchanged ==
  [][ (last'.op = "set" /\ ~last'.flag
        /\ Get(slot, cells, Src(last')) = last'.value)
      => calls' = <<>> /\ slot' = slot /\ cells' = cells ]_vars

C8_Witness ==
  /\ Returned(last, "set")
  /\ ~last.flag
  /\ calls = <<>>
  /\ IsPropertyBound(slot, Src(last))
  /\ Cardinality(Group(Src(last))) >= 2
  /\ \E b \in Group(Src(last)) : hasChanged[b]

\* C9: a bindTo that returned, whose source was the root of a group with a
\* table of size m, into a target whose table has size n, yields a table of
\* size n + m with the target's entries first and the source's entries after,
\* both in their original order; the selfIndex and every proxyIndices value of
\* every former source-group descriptor grew by exactly n, and get is equal
\* across all n + m members.
C9_MergePreservesMembers ==
  [][ (Returned(last', "bindTo") /\ IsPropertyBound(slot, Src(last')))
      => LET s == Src(last')
             t == Tgt(last')
             sobs == cells[slot[s].sharedObject].observers
             tobs == IF IsPropertyBound(slot, t)
                     THEN cells[slot[t].sharedObject].observers ELSE <<t>>
             n == Len(tobs)
             merged == cells'[slot'[t].sharedObject].observers
         IN /\ merged = tobs \o sobs
            /\ \A k \in 1..Len(sobs) :
                 /\ slot'[sobs[k]].myIndex = slot[sobs[k]].myIndex + n
                 /\ slot'[sobs[k]].observerIndexes =
                      [j \in 1..Len(slot[sobs[k]].observerIndexes) |->
                         slot[sobs[k]].observerIndexes[j] + n]
            /\ \A j, k \in 1..Len(merged) :
                 Get(slot', cells', merged[j]) = Get(slot', cells', merged[k]) ]_vars

\* C10: a bindTo whose target lacks targetKey (defaulting to key) fails with
\* the 'Undefined property on target' error; no slot, descriptor, table or
\* cell value changes and no callback is invoked.
C10_MissingAttributeAborts ==
  [][ (last'.op = "bindTo" /\ slot[Tgt(last')].kind = "Absent")
      => /\ last'.outcome = "Undefined"
         /\ slot' = slot /\ cells' = cells
         /\ calls' = <<>> ]_vars

C10_Witness ==
  /\ last.op = "bindTo"
  /\ last.outcome = "Undefined"
  /\ slot[Tgt(last)].kind = "Absent"
  /\ IsPropertyBound(slot, Src(last))
  /\ links # {}

\* the attributes that were the source of a bindTo that returned
Sourced == {l[1] : l \in links}

\* the shared objects some descriptor references
Referenced == {slot[a].sharedObject : a \in {b \in Attr : slot[b].kind = "Bound"}} \ {Null}

\* C11 (as claimed): an attribute is the source of at most one bindTo that
\* returns; once it has sourced a bind its selfIndex is nonzero ever after and
\* every later bindTo with it as source fails with the 'already bound' error.
C11_AtMostOneSourcing ==
  [][ /\ Returned(last', "bindTo") => Src(last') \notin Sourced
      /\ \A s \in Sourced : slot[s].myIndex # 0 /\ slot'[s].myIndex # 0
      /\ (last'.op = "bindTo" /\ Src(last') \in Sourced)
           => last'.outcome = "AlreadyBound" ]_vars

\* C11 (amended): as above, but a later bindTo with the attribute as source
\* fails with the 'already bound' error when the target has targetKey and
\* with the 'Undefined property on target' error when it has not.
C11_AtMostOneSourcingAmended ==
  [][ /\ Returned(last', "bindTo") => Src(last') \notin Sourced
      /\ \A s \in Sourced : slot[s].myIndex # 0 /\ slot'[s].myIndex # 0
      /\ (last'.op = "bindTo" /\ Src(last') \in Sourced)
           => last'.outcome = IF slot[Tgt(last')].kind = "Absent"
                              THEN "Undefined" ELSE "AlreadyBound" ]_vars

C11_Witness ==
  /\ last.op = "bindTo"
  /\ last.outcome = "AlreadyBound"
  /\ Src(last) \in Sourced
  /\ <<Src(last), Tgt(last)>> \notin links
  /\ Cardinality(links) = 2

\* C12: for every shared object some descriptor references and every position
\* i of its table, the descriptor of the entry at i has selfIndex i.
C12_SelfIndexFaithful ==
  \A c \in Referenced : \A k \in 1..Len(cells[c].observers) :
     slot[cells[c].observers[k]].myIndex = k - 1

\* C13: every entry of a referenced shared object's table has a descriptor
\* that references that same shared object, all members of one connected
\* group reference one shared object, and no descriptor references the
\* shared object of a source that was absorbed by a merge.
C13_SingleCanonicalCell ==
  /\ \A c \in Referenced : \A k \in 1..Len(cells[c].observers) :
        slot[cells[c].observers[k]].sharedObject = c
  /\ \A a \in Attr : \A b \in Group(a) :
        slot[a].sharedObject = slot[b].sharedObject
  /\ \A s \in Sourced : s \notin Referenced

C13_Witness ==
  \E s \in Sourced :
     /\ Len(cells[s].observers) = 2
     /\ Cardinality(Group(s)) = 3
     /\ Len(cells[slot[s].sharedObject].observers) = 3

\* C14: every value in a descriptor's proxyIndices is a position of its
\* shared object's table, the entry there was the source of a bindTo that
\* returned with this attribute as target, and no position occurs twice.
C14_ProxyIndicesValid ==
  \A a \in Attr :
     (slot[a].kind = "Bound" /\ slot[a].sharedObject # Null)
     => LET obs == cells[slot[a].sharedObject].observers
            ix  == slot[a].observerIndexes
        IN /\ \A j \in 1..Len(ix) :
                /\ ix[j] < Len(obs)
                /\ <<obs[ix[j] + 1], a>> \in links
           /\ \A j, k \in 1..Len(ix) : j # k => ix[j] # ix[k]

\* C15 (as claimed): position 0 of the table is occupied by the target of the
\* most recent bindTo that returned and formed the group.
C15_RootIsLastTarget ==
  Returned(last, "bindTo")
  => cells[slot[Tgt(last)].sharedObject].observers[1] = Tgt(last)

\* C15 (amended): position 0 of a referenced table is the attribute whose
\* promotion from Plain created the shared object; a bindTo that returned
\* leaves at position 0 the entry that was at position 0 of the target's
\* table before the call, the target itself when this call promoted it
\* (it then has index 0).
C15_RootIsTargetsRoot ==
  [][ Returned(last', "bindTo")
      => LET t == Tgt(last')
             merged == cells'[slot'[t].sharedObject].observers
         IN /\ merged[1] = IF slot[t].kind = "Bound"
                            THEN cells[slot[t].sharedObject].observers[1] ELSE t
            /\ slot[t].kind # "Bound" => slot'[t].myIndex = 0
            /\ \A c \in {slot'[a].sharedObject : a \in Group(t) \cup Group(Src(last'))} :
                  cells'[c].observers[1] = c ]_vars

C15_Witness ==
  /\ Returned(last, "bindTo")
  /\ cells[slot[Tgt(last)].sharedObject].observers[1] # Tgt(last)
  /\ cells[slot[Tgt(last)].sharedObject].observers[1] # Src(last)
  /\ Len(cells[slot[Tgt(last)].sharedObject].observers) = 3

\* C17: a set on a Plain attribute with a new value changes only that raw
\* slot and invokes <key>Changed with no argument on that object only; a set
\* on a Bound attribute changes only its shared object's value; no table,
\* index, reference or Plain/Bound classification changes.
C17_SetKeepsStructure ==
  [][ last'.op = "set"
      => LET a == Src(last')
         IN CASE slot[a].kind = "Plain" ->
                   /\ cells' = cells
                   /\ slot' = [slot EXCEPT ![a] = Plain(last'.value)]
                   /\ slot[a].value # last'.value
                        => calls' = IF hasChanged[a]
                                    THEN <<[attr |-> a, args |-> <<>>]>> ELSE <<>>
              [] slot[a].kind = "Bound" ->
                   /\ slot' = slot
                   /\ \A c \in Attr :
                        /\ cells'[c].observers = cells[c].observers
                        /\ c # slot[a].sharedObject => cells'[c] = cells[c]
              [] OTHER -> slot' = slot /\ cells' = cells ]_vars

C17_Witness ==
  /\ Returned(last, "set")
  /\ slot[Src(last)].kind = "Bound"
  /\ Len(calls) = 2
  /\ \E b \in Attr : b \notin Group(Src(last)) /\ slot[b].kind = "Bound"

\* C18: no table of a referenced shared object holds the same (owner, key)
\* pair at two positions, and no pair is an entry of two different
\* referenced shared objects.
C18_NoDuplicateMembership ==
  /\ \A c \in Referenced : \A j, k \in 1..Len(cells[c].observers) :
        j # k => cells[c].observers[j] # cells[c].observers[k]
  /\ \A c, d \in Referenced :
        c # d => \A j \in 1..Len(cells[c].observers), k \in 1..Len(cells[d].observers) :
                   cells[c].observers[j] # cells[d].observers[k]

C18_Witness ==
  /\ last.op = "bindTo"
  /\ last.outcome = "TypeError"
  /\ Src(last) # Tgt(last)
  /\ Tgt(last) \in Group(Src(last))
  /\ Cardinality(Group(Src(last))) = 3

\* position of e in a table (0 when it is not there)
Pos(obs, e) ==
  IF \E k \in 1..Len(obs) : obs[k] = e
  THEN CHOOSE k \in 1..Len(obs) : obs[k] = e ELSE 0

\* the table a call notifies: of the written attribute's shared object for a
\* set on a Bound attribute, the merged one for a bindTo that returned
Notified(c) ==
  IF c.op = "set" /\ slot[Src(c)].kind = "Bound"
  THEN cells[slot[Src(c)].sharedObject].observers
  ELSE IF Returned(c, "bindTo")
  THEN cells'[slot'[Tgt(c)].sharedObject].observers
  ELSE <<>>

\* C16: within one set on a Bound attribute and within one bindTo, the
\* callbacks are invoked before the call returns (a writing set has notified
\* every member that defines one) and in strictly ascending table position.
C16_NotificationOrder ==
  [][ Notified(last') # <<>>
      => LET obs == Notified(last')
         IN /\ \A i \in 1..Len(calls') : Pos(obs, calls'[i].attr) > 0
            /\ \A i, j \in 1..Len(calls') :
                 i < j => Pos(obs, calls'[i].attr) < Pos(obs, calls'[j].attr)
            /\ (last'.op = "set"
                  /\ (last'.flag \/ Get(slot, cells, Src(last')) # last'.value))
                 => {calls'[i].attr : i \in 1..Len(calls')}
                      = {obs[k] : k \in {j \in 1..Len(obs) : hasChanged[obs[j]]}} ]_vars

C16_Witness ==
  /\ Returned(last, "set")
  /\ slot[Src(last)].kind = "Bound"
  /\ Len(cells[slot[Src(last)].sharedObject].observers) = 3
  /\ cells[slot[Src(last)].sharedObject].observers[2] = <<"o3", "name">>
  /\ Len(calls) = 2
  /\ calls[1].attr = cells[slot[Src(last)].sharedObject].observers[1]

\* C19 (as claimed): whenever bindTo invokes a callback during the merge of an
\* already Bound source group, get on every member of the merged table
\* returns the target's value.
C19_CallbackSeesRewiredGroup ==
  [][ (Returned(last', "bindTo") /\ slot[Src(last')].kind = "Bound")
      => LET merged == cells'[slot'[Tgt(last')].sharedObject].observers
             v == cells'[slot'[Tgt(last')].sharedObject].value
         IN \A i \in 1..Len(views') : \A k \in 1..Len(merged) :
               views'[i].get[merged[k]] = v ]_vars

\* C19 (amended): when bindTo invokes the callback of the member at position
\* p of the merged table, get returns the target's value on the members at
\* positions up to and including p, and still returns the value the source
\* held before the bind on the members at later positions.
C19_CallbackSeesRewiredPrefix ==
  [][ (Returned(last', "bindTo") /\ slot[Src(last')].kind = "Bound")
      => LET merged == cells'[slot'[Tgt(last')].sharedObject].observers
             v == cells'[slot'[Tgt(last')].sharedObject].value
         IN \A i \in 1..Len(views') : \A k \in 1..Len(merged) :
               views'[i].get[merged[k]] =
                 IF k <= Pos(merged, calls'[i].attr) THEN v
                 ELSE last'.observersValue ]_vars

C19_Witness ==
  /\ Returned(last, "bindTo")
  /\ Len(calls) >= 1
  /\ Len(cells[slot[Tgt(last)].sharedObject].observers) = 3
  /\ last.n = 1
  /\ \E b \in Attr : /\ Pos(cells[slot[Tgt(last)].sharedObject].observers, b) = 3
                      /\ views[1].get[b] = last.observersValue
                      /\ views[1].get[b] # Get(slot, cells, b)

\* C20 (as claimed): every time set invokes <key>Changed(value) the argument
\* equals what get returns on that member at that moment, also when an
\* earlier callback of the same loop has called set with another value.
C20_ArgumentIsCurrent ==
  [][ last'.op = "set"
      => \A i \in 1..Len(calls') :
            calls'[i].args # <<>>
            => calls'[i].args[1] = views'[i].get[calls'[i].attr] ]_vars

\* C20 (amended): the argument is the value given to the set whose loop makes
\* the invocation; it equals what get returns on that member at that moment
\* unless an earlier callback of the same loop has called set on the group
\* with another value: the loop then still passes its own value while get
\* returns the value of the inner set.
C20_ArgumentIsOwnSetValue ==
  [][ last'.op = "set"
      => \A i \in 1..Len(calls') :
            calls'[i].args # <<>>
            => LET a == calls'[i].attr
                   reentered == \E j \in 1..(i - 1) :
                                   /\ views'[j].depth = 0
                                   /\ Reenters(calls'[j].attr, calls'[j].args)
               IN IF views'[i].depth = 0
                  THEN /\ calls'[i].args = <<last'.value>>
                       /\ views'[i].get[a] =
                            IF reentered THEN Replacement ELSE last'.value
                  ELSE /\ calls'[i].args = <<Replacement>>
                       /\ views'[i].get[a] = Replacement ]_vars

C20_Witness ==
  /\ Returned(last, "set")
  /\ \E i \in 1..Len(calls) :
        /\ views[i].depth = 0
        /\ calls[i].args = <<last.value>>
        /\ views[i].get[calls[i].attr] # last.value
        /\ calls[i].attr \notin reenters

====
